---- MODULE Spec2Model ----
(***************************************************************************)
(* EcoFinds marketplace backend: the cart store, the purchase store and    *)
(* the listing store, with the request handlers of the cart and purchase   *)
(* controllers as processes that interleave at their awaits (each step of  *)
(* a handler is the code between two awaits, ending in one database call). *)
(* Money is counted in thousandths of a currency unit (10 = one cent).     *)
(***************************************************************************)
EXTENDS Integers, Sequences, FiniteSets

\* ---------------------------------------------------------------- bounds
\* Requests served in one behaviour (each Start* takes one).
MaxRequests == 3

\* Request slots: how many handlers can be in flight at once.
Reqs == {1, 2}
\* Accounts, and the accounts that send requests (account 3 only sells).
Users == {1, 2, 3}
Callers == {1, 2}
\* Listings; listing p was created by account ProductOwner[p].
ProductIds == {1, 2}
ProductOwner == [p \in ProductIds |-> IF p = 1 THEN 3 ELSE 1]
\* Prices the listings were created with (10004 = 10.004, 2507 = 2.507).
CreatedPrice == [p \in ProductIds |-> IF p = 1 THEN 10004 ELSE 2507]
\* Title and image a listing was created with (texts are numbered).
CreatedText == 1
\* Title and image an edit of a listing sends.
EditedText == 2

\* ------------------------------------------------------------ JS values
ObjectId(n) == [t |-> "ObjectId", f |-> "id", v |-> n]
UserDoc(n) == [t |-> "Document", f |-> "id", v |-> n]
Number(n) == [t |-> "Number", f |-> "dec", v |-> n]
String(n) == [t |-> "String", f |-> "dec", v |-> n]
Undefined == [t |-> "Undefined", f |-> "", v |-> 0]
Array(s) == [t |-> "Array", f |-> "", v |-> s]

\* x.toString(): an ObjectId gives its hex string, a populated document its
\* inspect() text, a string itself.
ToString(x) ==
  IF x.t = "ObjectId" THEN [t |-> "String", f |-> "hex", v |-> x.v]
  ELSE IF x.t = "Document" THEN [t |-> "String", f |-> "inspect", v |-> x.v]
  ELSE x

\* a === b: no conversion, so values of different types are never equal.
StrictEquals(a, b) == a = b

\* Number of decimal digits of n (n in 0..999).
Digits(n) == IF n < 10 THEN 1 ELSE IF n < 100 THEN 2 ELSE 3

Pow10(d) == IF d = 1 THEN 10 ELSE IF d = 2 THEN 100 ELSE 1000

\* k + q for a number k: numeric addition when q is a number, string
\* concatenation of the decimal texts when q is a string.
JsPlus(k, q) ==
  IF q.t = "Number" THEN Number(k + q.v)
  ELSE String(k * Pow10(Digits(q.v)) + q.v)

\* Math.min(a, b): both operands converted to numbers.
MathMin(a, b) == IF a.v < b THEN a.v ELSE b

\* Math.round(x * 100) / 100 on thousandths.
RoundCents(x) == ((x + 5) \div 10) * 10

\* ------------------------------------------------------------- schemas
MaxQuantity == 10
MinQuantity == 1

\* express-validator isInt({min, max}): checks the value's text, converts nothing.
IsInt(val, lo, hi) == val.t \in {"Number", "String"} /\ lo <= val.v /\ val.v <= hi

\* body('quantity').optional().isInt({ min: 1, max: 10 })
ValidateAddToCart(q) == q.t = "Undefined" \/ IsInt(q, MinQuantity, MaxQuantity)

\* body('quantity').isInt({ min: 1, max: 10 })
ValidateUpdateCartItem(q) == IsInt(q, MinQuantity, MaxQuantity)

\* Quantities a client sends: a JSON number, the same as a string (a form
\* field), an out-of-range number and, for add, nothing.
QuantityInputs == {Number(4), String(4), Number(11)}

VARIABLES
  products,   \* listing store: ProductIds -> document (exists = FALSE: no such document)
  cart,       \* cart store: set of CartItem documents
  purchases,  \* purchase store: sequence of Purchase documents (_id = index)
  reqs,       \* Reqs -> the handler in flight in that slot, with its locals
  last,       \* the response the step just taken sent ("none": it sent none)
  nextCartId, \* _id the next CartItem document gets
  data,       \* the data that response carried
  accounts,   \* account store: set of User documents
  served,     \* requests started so far
  up          \* the server process is running

vars == <<products, cart, purchases, accounts, reqs, last, data, nextCartId, served, up>>

NoProduct ==
  [exists |-> FALSE, user |-> 0, title |-> 0, image |-> 0, price |-> 0,
   isAvailable |-> FALSE]
NoItem == [id |-> 0, user |-> 0, product |-> 0, quantity |-> 0]

\* A response without a data field.
NoData == [kind |-> "none"]

Idle ==
  [kind |-> "none", pc |-> "idle", user |-> 0, product |-> 0, id |-> 0,
   qty |-> Undefined, notes |-> FALSE, item |-> NoItem,
   valid |-> <<>>, invalid |-> <<>>, pur |-> 0]

\* authenticate: req.user = { id: user._id, ... }
ReqUserId(r) == ObjectId(reqs[r].user)

\* The accounts registered before server start, one per account id; the email
\* of account n is the text numbered n, stored in lower case.
InitialAccounts == {[id |-> u, email |-> [name |-> u, upper |-> FALSE]] : u \in Users}

\* The stores at server start: both listings on sale, and the cart items two
\* earlier add requests (accounts 1 and 2, listing 1, quantity 4) left behind.
InitialCart ==
  {[id |-> 1, user |-> 1, product |-> 1, quantity |-> 4],
   [id |-> 2, user |-> 2, product |-> 1, quantity |-> 4]}

Init ==
  /\ products = [p \in ProductIds |->
       [exists |-> TRUE, user |-> ProductOwner[p],
        title |-> CreatedText, image |-> CreatedText,
        price |-> RoundCents(CreatedPrice[p]), isAvailable |-> TRUE]]
  /\ cart = InitialCart
  /\ purchases = <<>>
  /\ accounts = InitialAccounts
  /\ reqs = [r \in Reqs |-> Idle]
  /\ last = "none"
  /\ data = NoData
  /\ nextCartId = Cardinality(InitialCart) + 1
  /\ served = 0
  /\ up = TRUE

\* The first free slot takes the next request.
Begin(r, rec) ==
  /\ up
  /\ reqs[r].pc = "idle"
  /\ \A s \in Reqs : s < r => reqs[s].pc # "idle"
  /\ served < MaxRequests
  /\ served' = served + 1
  /\ reqs' = [reqs EXCEPT ![r] = rec]

\* The handler of slot r sends its response and ends.
Respond(r, code) ==
  /\ reqs' = [reqs EXCEPT ![r] = Idle]
  /\ last' = code
  /\ data' = NoData

\* The same, with a response that carries data.
RespondWith(r, code, d) ==
  /\ reqs' = [reqs EXCEPT ![r] = Idle]
  /\ last' = code
  /\ data' = d

Goto(r, rec) == reqs' = [reqs EXCEPT ![r] = rec]

\* ---------------------------------------------------------- CartItem model
\* The schema without its unique index: every insert is accepted.
UniqueIndexMissing(store, u, p) == TRUE

\* cartItemSchema.index({ user: 1, product: 1 }, { unique: true }): whether the
\* store accepts a new document for (u, p).
UniqueIndexAllows(store, u, p) == ~\E e \in store : e.user = u /\ e.product = p

\* Documents of the store matching { user: u }.
UserItems(store, u) == {e \in store : e.user = u}

\* document.save() of an already stored CartItem whose quantity was set to q:
\* updates the stored document of that _id, if it is still there.
SaveQuantity(store, doc, q) ==
  {IF e.id = doc.id THEN [e EXCEPT !.quantity = q] ELSE e : e \in store}

\* A deleteMany without its filter: the documents of every account go.
ClearEveryCart(store, u) == [store |-> {}, deletedCount |-> Cardinality(store)]

\* CartItem.clearUserCart(userId): deleteMany({ user: userId }), the store it
\* leaves and the deletedCount of its result.
ClearUserCart(store, u) ==
  [store |-> store \ UserItems(store, u),
   deletedCount |-> Cardinality(UserItems(store, u))]

\* ------------------------------------------------------------- addToCart
\* const { productId, quantity = 1 } = req.body
QuantityOrDefault(q) == IF q.t = "Undefined" THEN Number(1) ELSE q

\* product.user.toString() === userId, on the document Product.findById gave.
AddIsOwnProduct(product, userId) ==
  StrictEquals(ToString(ObjectId(product.user)), userId)

\* POST /api/cart arrives: validation, then the handler awaits Product.findById.
StartAdd(r, u, p, q) ==
  /\ Begin(r, [Idle EXCEPT !.kind = "add", !.pc = "add_product", !.user = u,
                           !.product = p, !.qty = QuantityOrDefault(q)])
  /\ ValidateAddToCart(q)
  /\ last' = "none" /\ data' = NoData /\ UNCHANGED <<products, cart, purchases, nextCartId, up>>
  /\ UNCHANGED accounts

StartAddInvalid(r, u, p, q) ==
  /\ Begin(r, Idle)
  /\ ~ValidateAddToCart(q)
  /\ last' = "add:400:validation" /\ data' = NoData
  /\ UNCHANGED <<products, cart, purchases, nextCartId, up>>
  /\ UNCHANGED accounts

\* A handler that makes only the own-product check.
AddRefusalOwnOnly(product, userId) ==
  IF product.exists /\ AddIsOwnProduct(product, userId) THEN "add:400:own" ELSE "none"

\* The existence, availability and own-product checks of addToCart: the error
\* the handler answers with, "none" when it goes on.
AddRefusal(product, userId) ==
  IF ~product.exists THEN "add:404:product"
  ELSE IF ~product.isAvailable THEN "add:400:unavailable"
  ELSE IF AddIsOwnProduct(product, userId) THEN "add:400:own"
  ELSE "none"

\* Product.findById answered: the checks, then addOrUpdateItem is called.
AddCheckProduct(r) ==
  /\ up
  /\ reqs[r].pc = "add_product"
  /\ LET refusal == AddRefusal(products[reqs[r].product], ReqUserId(r)) IN
       IF refusal # "none" THEN Respond(r, refusal)
       ELSE Goto(r, [reqs[r] EXCEPT !.pc = "add_findOne"]) /\ last' = "none" /\ data' = NoData
  /\ UNCHANGED <<products, cart, purchases, nextCartId, served, up>>
  /\ UNCHANGED accounts

\* addOrUpdateItem: findOne({ user, product }) answered.
AddFindOne(r) ==
  /\ up
  /\ reqs[r].pc = "add_findOne"
  /\ LET found == {e \in cart : e.user = reqs[r].user /\ e.product = reqs[r].product} IN
       IF found = {} THEN Goto(r, [reqs[r] EXCEPT !.pc = "add_presave"])
       ELSE \E e \in found : Goto(r, [reqs[r] EXCEPT !.pc = "add_update", !.item = e])
  /\ last' = "none" /\ data' = NoData
  /\ UNCHANGED <<products, cart, purchases, nextCartId, served, up>>
  /\ UNCHANGED accounts

\* cartItem.quantity = Math.min(cartItem.quantity + quantity, 10)
AddNewQuantity(k, q) == MathMin(JsPlus(k, q), MaxQuantity)

\* Existing item: the new quantity is saved (nothing is written when it did not
\* change; a document deleted meanwhile makes save() throw), then the response.
AddUpdate(r) ==
  /\ up
  /\ reqs[r].pc = "add_update"
  /\ LET doc == reqs[r].item
         q == AddNewQuantity(doc.quantity, reqs[r].qty) IN
       IF q = doc.quantity THEN cart' = cart /\ Respond(r, "add:201")
       ELSE IF \E e \in cart : e.id = doc.id
         THEN cart' = SaveQuantity(cart, doc, q) /\ Respond(r, "add:201")
         ELSE cart' = cart /\ Respond(r, "add:500")
  /\ UNCHANGED <<products, purchases, nextCartId, served, up>>
  /\ UNCHANGED accounts

\* New item: cartItemSchema.pre('save') reads the product again.
AddPreSave(r) ==
  /\ up
  /\ reqs[r].pc = "add_presave"
  /\ LET product == products[reqs[r].product] IN
       IF ~product.exists \/ ~product.isAvailable THEN Respond(r, "add:500")
       ELSE Goto(r, [reqs[r] EXCEPT !.pc = "add_insert"]) /\ last' = "none" /\ data' = NoData
  /\ UNCHANGED <<products, cart, purchases, nextCartId, served, up>>
  /\ UNCHANGED accounts

\* New item: the insert, which the unique index may reject.
AddInsert(r) ==
  /\ up
  /\ reqs[r].pc = "add_insert"
  /\ IF UniqueIndexAllows(cart, reqs[r].user, reqs[r].product)
       THEN /\ cart' = cart \cup
                 {[id |-> nextCartId, user |-> reqs[r].user, product |-> reqs[r].product,
                   quantity |-> MathMin(reqs[r].qty, MaxQuantity)]}
            /\ nextCartId' = nextCartId + 1
            /\ Respond(r, "add:201")
       ELSE /\ UNCHANGED <<cart, nextCartId>>
            /\ Respond(r, "add:500")
  /\ UNCHANGED <<products, purchases, served, up>>
  /\ UNCHANGED accounts

\* ---------------------------------------------------------- Purchase model
RECURSIVE SumLines(_)
\* calculatedTotal += item.quantity * item.priceAtPurchase, over the lines.
SumLines(lines) ==
  IF lines = <<>> THEN 0
  ELSE lines[1].quantity * lines[1].priceAtPurchase + SumLines(Tail(lines))

\* A pre-save hook that adds up the prices and forgets the quantities.
PurchasePreSaveIgnoringQuantity(doc) ==
  [doc EXCEPT !.total =
     RoundCents(SumLines([i \in 1..Len(doc.products) |->
                            [doc.products[i] EXCEPT !.quantity = 1]]))]

\* purchaseSchema.pre('save'): the total is recomputed from the lines.
PurchasePreSave(doc) == [doc EXCEPT !.total = RoundCents(SumLines(doc.products))]

\* createFromCart refuses an empty list and any item without an available product.
CreateFromCartThrows(cartItems) ==
  \/ cartItems = <<>>
  \/ \E i \in 1..Len(cartItems) :
       ~cartItems[i].product.exists \/ ~cartItems[i].product.isAvailable

\* createFromCart: the Purchase document built from the populated cart items,
\* as handed to save().
CreateFromCart(u, cartItems) ==
  LET lines == [i \in 1..Len(cartItems) |->
                  [product |-> cartItems[i].product.id,
                   quantity |-> cartItems[i].quantity,
                   priceAtPurchase |-> cartItems[i].product.price,
                   title |-> cartItems[i].product.title,
                   image |-> cartItems[i].product.image,
                   seller |-> cartItems[i].product.user]] IN
    [user |-> u, products |-> lines, total |-> RoundCents(SumLines(lines)),
     notes |-> FALSE]

\* ------------------------------------------------------------ getUserCart
RECURSIVE SortByAddedAtDesc(_)
\* .sort({ addedAt: -1 }): documents get _id and addedAt in creation order.
SortByAddedAtDesc(S) ==
  IF S = {} THEN <<>>
  ELSE LET e == CHOOSE x \in S : \A y \in S : y.id <= x.id IN
         <<e>> \o SortByAddedAtDesc(S \ {e})

\* A populate that gives each listing as it was created.
PopulateAsCreated(e) ==
  [id |-> e.id, quantity |-> e.quantity,
   product |-> [id |-> e.product, exists |-> products[e.product].exists,
                user |-> ProductOwner[e.product],
                title |-> CreatedText, image |-> CreatedText,
                price |-> RoundCents(CreatedPrice[e.product]),
                isAvailable |-> products[e.product].isAvailable]]

\* populate('product'): the listing as it is now, its owner populated in turn.
Populate(e) ==
  [id |-> e.id, quantity |-> e.quantity,
   product |-> [id |-> e.product, exists |-> products[e.product].exists,
                user |-> products[e.product].user,
                title |-> products[e.product].title,
                image |-> products[e.product].image,
                price |-> products[e.product].price,
                isAvailable |-> products[e.product].isAvailable]]

GetUserCart(u) ==
  LET s == SortByAddedAtDesc(UserItems(cart, u)) IN
    [i \in 1..Len(s) |-> Populate(s[i])]

\* --------------------------------------------------------- createPurchase
\* cartItem.product.user.toString() === userId, on the populated owner.
CheckoutIsOwnProduct(product, userId) ==
  StrictEquals(ToString(UserDoc(product.user)), userId)

\* The three tests that put a cart item on unavailableItems.
CheckoutRejects(item, userId) ==
  \/ ~item.product.exists
  \/ ~item.product.isAvailable
  \/ CheckoutIsOwnProduct(item.product, userId)

CheckoutReason(item) ==
  IF ~item.product.exists THEN "Product not found"
  ELSE IF ~item.product.isAvailable THEN "Product no longer available"
  ELSE "Cannot purchase your own product"

\* A handler without the empty-cart test.
CartIsEmptyUntested(cartItems) == FALSE

\* !cartItems || cartItems.length === 0
CartIsEmpty(cartItems) == cartItems = <<>>

\* POST /api/purchases arrives; the notes validation accepts any text here.
StartCheckout(r, u, notes) ==
  /\ Begin(r, [Idle EXCEPT !.kind = "checkout", !.pc = "co_cart", !.user = u,
                           !.notes = notes])
  /\ last' = "none" /\ data' = NoData /\ UNCHANGED <<products, cart, purchases, nextCartId, up>>
  /\ UNCHANGED accounts

\* getUserCart answered: the empty-cart test and the partition of the items.
CheckoutReadCart(r) ==
  /\ up
  /\ reqs[r].pc = "co_cart"
  /\ LET cartItems == GetUserCart(reqs[r].user)
         validItems == SelectSeq(cartItems, LAMBDA it : ~CheckoutRejects(it, ReqUserId(r)))
         rejected == SelectSeq(cartItems, LAMBDA it : CheckoutRejects(it, ReqUserId(r)))
         unavailableItems == [i \in 1..Len(rejected) |->
                                [cartItemId |-> rejected[i].id,
                                 reason |-> CheckoutReason(rejected[i])]] IN
       IF CartIsEmpty(cartItems) THEN Respond(r, "checkout:400:empty")
       ELSE /\ Goto(r, [reqs[r] EXCEPT
                          !.pc = IF unavailableItems # <<>> THEN "co_delete" ELSE "co_create",
                          !.valid = validItems, !.invalid = unavailableItems])
            /\ last' = "none" /\ data' = NoData
  /\ UNCHANGED <<products, cart, purchases, nextCartId, served, up>>
  /\ UNCHANGED accounts

\* deleteMany({ _id: { $in: unavailableIds } }), then the no-valid-items test.
CheckoutDeleteInvalid(r) ==
  /\ up
  /\ reqs[r].pc = "co_delete"
  /\ LET ids == {reqs[r].invalid[i].cartItemId : i \in 1..Len(reqs[r].invalid)} IN
       cart' = {e \in cart : e.id \notin ids}
  /\ IF reqs[r].valid = <<>>
       THEN RespondWith(r, "checkout:400:novalid",
              [kind |-> "novalid", unavailableItems |-> reqs[r].invalid])
     ELSE Goto(r, [reqs[r] EXCEPT !.pc = "co_create"]) /\ last' = "none" /\ data' = NoData
  /\ UNCHANGED <<products, purchases, nextCartId, served, up>>
  /\ UNCHANGED accounts

\* The step that saves the Purchase, leaving the cart store as cartAfter and the
\* listing store as productsAfter when the save succeeds.
CheckoutCreateLeaving(r, cartAfter, productsAfter) ==
  /\ up
  /\ reqs[r].pc = "co_create"
  /\ IF CreateFromCartThrows(reqs[r].valid)
       THEN UNCHANGED <<purchases, cart, products>> /\ Respond(r, "checkout:500")
       ELSE /\ purchases' = Append(purchases,
                 PurchasePreSave(CreateFromCart(reqs[r].user, reqs[r].valid)))
            /\ cart' = cartAfter
            /\ products' = productsAfter
            /\ Goto(r, [reqs[r] EXCEPT
                          !.pc = IF reqs[r].notes THEN "co_notes" ELSE "co_clear",
                          !.pur = Len(purchases) + 1])
            /\ last' = "none" /\ data' = NoData
  /\ UNCHANGED <<nextCartId, served, up>>
  /\ UNCHANGED accounts

\* A checkout that saves the Purchase and clears the cart in one transaction.
CheckoutCreateClearingCart(r) ==
  CheckoutCreateLeaving(r, cart \ UserItems(cart, reqs[r].user), products)

\* A checkout that takes the purchased listings off sale.
CheckoutCreateReserving(r) ==
  CheckoutCreateLeaving(r, cart,
    [p \in ProductIds |->
       IF \E i \in 1..Len(reqs[r].valid) : reqs[r].valid[i].product.id = p
         THEN [products[p] EXCEPT !.isAvailable = FALSE] ELSE products[p]])

\* Purchase.createFromCart(userId, validItems): the Purchase is saved; neither
\* the cart nor a listing is written.
CheckoutCreate(r) == CheckoutCreateLeaving(r, cart, products)

\* A failed save that is followed by the clearing of the cart all the same.
CheckoutCreateFailsClearing(r) ==
  /\ up
  /\ reqs[r].pc = "co_create"
  /\ cart' = ClearUserCart(cart, reqs[r].user).store
  /\ Respond(r, "checkout:500")
  /\ UNCHANGED <<products, purchases, accounts, nextCartId, served, up>>

\* The save of the Purchase is rejected by the database: createFromCart throws,
\* the catch block answers 500, and nothing was written.
CheckoutCreateFails(r) ==
  /\ up
  /\ reqs[r].pc = "co_create"
  /\ Respond(r, "checkout:500")
  /\ UNCHANGED <<products, cart, purchases, accounts, nextCartId, served, up>>

\* A notes save that also takes the current prices of the listings.
CheckoutSaveNotesRepricing(r) ==
  /\ up
  /\ reqs[r].pc = "co_notes"
  /\ LET doc == purchases[reqs[r].pur]
         lines == [i \in 1..Len(doc.products) |->
                    [doc.products[i] EXCEPT
                       !.priceAtPurchase = products[doc.products[i].product].price]]
     IN purchases' = [purchases EXCEPT ![reqs[r].pur] =
                        PurchasePreSave([doc EXCEPT !.notes = TRUE, !.products = lines])]
  /\ Goto(r, [reqs[r] EXCEPT !.pc = "co_clear"])
  /\ last' = "none" /\ data' = NoData
  /\ UNCHANGED <<products, cart, nextCartId, served, up>>
  /\ UNCHANGED accounts

\* purchase.notes = notes.trim(); await purchase.save()
CheckoutSaveNotes(r) ==
  /\ up
  /\ reqs[r].pc = "co_notes"
  /\ purchases' = [purchases EXCEPT ![reqs[r].pur] =
                     PurchasePreSave([@ EXCEPT !.notes = TRUE])]
  /\ Goto(r, [reqs[r] EXCEPT !.pc = "co_clear"])
  /\ last' = "none" /\ data' = NoData
  /\ UNCHANGED <<products, cart, nextCartId, served, up>>
  /\ UNCHANGED accounts

\* CartItem.clearUserCart(userId): deleteMany({ user: userId })
CheckoutClearCart(r) ==
  /\ up
  /\ reqs[r].pc = "co_clear"
  /\ cart' = ClearUserCart(cart, reqs[r].user).store
  /\ Goto(r, [reqs[r] EXCEPT !.pc = "co_respond"])
  /\ last' = "none" /\ data' = NoData
  /\ UNCHANGED <<products, purchases, nextCartId, served, up>>
  /\ UNCHANGED accounts

\* A response that leaves the dropped items out.
RemovedUnavailableItemsOmitted(unavailableItems) == Undefined

\* removedUnavailableItems: unavailableItems.length > 0 ? unavailableItems : undefined
RemovedUnavailableItems(unavailableItems) ==
  IF Len(unavailableItems) > 0 THEN Array(unavailableItems) ELSE Undefined

\* purchase.populate(...) answered: the 201 response.
CheckoutRespond(r) ==
  /\ up
  /\ reqs[r].pc = "co_respond"
  /\ RespondWith(r, "checkout:201",
       [kind |-> "purchase", purchase |-> purchases[reqs[r].pur],
        total |-> purchases[reqs[r].pur].total,
        removedUnavailableItems |-> RemovedUnavailableItems(reqs[r].invalid)])
  /\ UNCHANGED <<products, cart, purchases, nextCartId, served, up>>
  /\ UNCHANGED accounts

\* ------------------------------------------- the other cart handlers
\* The handlers below are taken in one step each (a read followed by one write).
Serve == up /\ served < MaxRequests /\ served' = served + 1

\* An ownership test that lets every account through.
BelongsToAnyUser(owner, userId) == TRUE

\* cartItemSchema.methods.belongsToUser:
\* this.user.toString() === userId.toString()
BelongsToUser(owner, userId) ==
  StrictEquals(ToString(ObjectId(owner)), ToString(userId))

\* A findByIdAndDelete that deletes nothing.
FindByIdAndDeleteNothing(store, id) == store

\* CartItem.findByIdAndDelete(id)
FindByIdAndDelete(store, id) == {e \in store : e.id # id}

\* PUT /api/cart/:id
UpdateCartItem(u, id, q) ==
  /\ Serve
  /\ IF ~ValidateUpdateCartItem(q)
       THEN last' = "update:400:validation" /\ UNCHANGED cart
     ELSE IF ~\E e \in cart : e.id = id
       THEN last' = "update:404" /\ UNCHANGED cart
     ELSE LET cartItem == CHOOSE e \in cart : e.id = id
              product == products[cartItem.product] IN
       IF ~BelongsToUser(cartItem.user, ObjectId(u))
         THEN last' = "update:403" /\ UNCHANGED cart
       ELSE IF ~product.exists \/ ~product.isAvailable
         THEN last' = "update:400:unavailable" /\ cart' = FindByIdAndDelete(cart, id)
       ELSE last' = "update:200" /\ cart' = SaveQuantity(cart, cartItem, q.v)
  /\ data' = NoData
  /\ UNCHANGED <<products, purchases, reqs, nextCartId, up>>
  /\ UNCHANGED accounts

\* removeFromCart on a cart store: the response it sends and the store it leaves.
RemoveFromCartResult(store, u, id) ==
  IF ~\E e \in store : e.id = id
    THEN [code |-> "remove:404", store |-> store]
  ELSE LET cartItem == CHOOSE e \in store : e.id = id IN
    IF ~BelongsToUser(cartItem.user, ObjectId(u))
      THEN [code |-> "remove:403", store |-> store]
    ELSE [code |-> "remove:200", store |-> FindByIdAndDelete(store, id)]

\* DELETE /api/cart/:id
RemoveFromCart(u, id) ==
  /\ Serve
  /\ last' = RemoveFromCartResult(cart, u, id).code
  /\ cart' = RemoveFromCartResult(cart, u, id).store
  /\ data' = NoData
  /\ UNCHANGED <<products, purchases, reqs, nextCartId, up>>
  /\ UNCHANGED accounts

\* DELETE /api/cart
ClearCart(u) ==
  /\ Serve
  /\ cart' = ClearUserCart(cart, u).store
  /\ last' = "clear:200"
  /\ data' = [kind |-> "clear", deletedCount |-> ClearUserCart(cart, u).deletedCount]
  /\ UNCHANGED <<products, purchases, reqs, nextCartId, up>>
  /\ UNCHANGED accounts

\* A filter that keeps every item whose product document was found.
ItemIsFound(item) == item.product.exists

\* item.product && item.product.isAvailable
ItemIsAvailable(item) == item.product.exists /\ item.product.isAvailable

RECURSIVE CartTotal(_)
\* total += item.quantity * item.product.price, over the items.
CartTotal(items) ==
  IF items = <<>> THEN 0
  ELSE items[1].quantity * items[1].product.price + CartTotal(Tail(items))

RECURSIVE CartItemCount(_)
\* itemCount += item.quantity, over the items.
CartItemCount(items) ==
  IF items = <<>> THEN 0 ELSE items[1].quantity + CartItemCount(Tail(items))

\* GET /api/cart: the items whose product is gone or unavailable are deleted,
\* the others returned with their total.
GetCart(u) ==
  /\ Serve
  /\ LET items == GetUserCart(u)
         availableItems == SelectSeq(items, ItemIsAvailable)
         unavailableItems == SelectSeq(items, LAMBDA it : ~ItemIsAvailable(it))
         unavailableIds == {unavailableItems[i].id : i \in 1..Len(unavailableItems)}
     IN /\ cart' = {e \in cart : e.id \notin unavailableIds}
        /\ data' = [kind |-> "cart", items |-> availableItems,
                    itemCount |-> CartItemCount(availableItems),
                    total |-> RoundCents(CartTotal(availableItems)),
                    removedUnavailableItems |-> Len(unavailableItems)]
  /\ last' = "cart:200"
  /\ UNCHANGED <<products, purchases, reqs, nextCartId, up>>
  /\ UNCHANGED accounts

\* ------------------------------------------------- the listing handlers
\* An ownership test that lets every account through.
IsOwnedByAnyUser(owner, userId) == TRUE

\* productSchema.methods.isOwnedBy: this.user.toString() === userId.toString()
IsOwnedBy(owner, userId) ==
  StrictEquals(ToString(ObjectId(owner)), ToString(userId))

\* price: min 0, max 99999.99
MinPrice == 0
MaxPrice == 99999990

\* isFloat({ min: 0, max: 99999.99 })
IsFloat(val, lo, hi) == val.t \in {"Number", "String"} /\ lo <= val.v /\ val.v <= hi

\* body('price').optional().isFloat({ min: 0, max: 99999.99 })
ValidateProductUpdate(body) ==
  body.price.t = "Undefined" \/ IsFloat(body.price, MinPrice, MaxPrice)

\* A pre-save hook that stores the price as it was sent.
ProductPreSaveKeeping(old, new) == new

\* productSchema.pre('save'): a modified price (every price of a new document
\* is) is rounded to cents.
ProductPreSave(old, new) ==
  IF ~old.exists \/ new.price # old.price
    THEN [new EXCEPT !.price = RoundCents(new.price)]
    ELSE new

\* Request bodies of PUT /api/products/:id: a new title, image and price, or
\* the listing taken off sale; the fields a body leaves out are undefined.
ProductPatches ==
  {[title |-> String(EditedText), image |-> String(EditedText),
    price |-> Number(10004), isAvailable |-> Undefined],
   [title |-> Undefined, image |-> Undefined,
    price |-> Undefined, isAvailable |-> Number(0)]}

\* if (title !== undefined) product.title = title; and so on for image, price
\* and isAvailable.
ApplyPatch(product, body) ==
  [product EXCEPT
     !.title = IF body.title # Undefined THEN body.title.v ELSE @,
     !.image = IF body.image # Undefined THEN body.image.v ELSE @,
     !.price = IF body.price # Undefined THEN body.price.v ELSE @,
     !.isAvailable = IF body.isAvailable # Undefined THEN body.isAvailable.v # 0 ELSE @]

\* PUT /api/products/:id
UpdateProduct(u, p, body) ==
  /\ Serve
  /\ IF ~ValidateProductUpdate(body)
       THEN last' = "product:400" /\ data' = NoData /\ UNCHANGED products
     ELSE IF ~products[p].exists
       THEN last' = "product:404" /\ data' = NoData /\ UNCHANGED products
     ELSE IF ~IsOwnedBy(products[p].user, ObjectId(u))
       THEN last' = "product:403" /\ data' = NoData /\ UNCHANGED products
     ELSE /\ last' = "product:200" /\ data' = NoData
          /\ products' = [products EXCEPT ![p] =
               ProductPreSave(@, ApplyPatch(@, body))]
  /\ UNCHANGED <<cart, purchases, reqs, nextCartId, up>>
  /\ UNCHANGED accounts

\* DELETE /api/products/:id
DeleteProduct(u, p) ==
  /\ Serve
  /\ IF ~products[p].exists
       THEN last' = "product:404" /\ data' = NoData /\ UNCHANGED products
     ELSE IF ~IsOwnedBy(products[p].user, ObjectId(u))
       THEN last' = "product:403" /\ data' = NoData /\ UNCHANGED products
     ELSE last' = "product:deleted" /\ data' = NoData /\ products' = [products EXCEPT ![p] = NoProduct]
  /\ UNCHANGED <<cart, purchases, reqs, nextCartId, up>>
  /\ UNCHANGED accounts

\* ------------------------------------------------------------- the process
\* process.exit: every handler in flight stops where it is; the stores stay
\* as they are and this process serves nothing more.
Crash ==
  /\ up
  /\ \E r \in Reqs : reqs[r].pc # "idle"
  /\ up' = FALSE
  /\ last' = "none" /\ data' = NoData
  /\ UNCHANGED <<products, cart, purchases, reqs, nextCartId, served>>
  /\ UNCHANGED accounts

Next ==
  \/ \E r \in Reqs, u \in Callers, p \in ProductIds, q \in QuantityInputs :
       StartAdd(r, u, p, q) \/ StartAddInvalid(r, u, p, q)
  \/ \E r \in Reqs :
       \/ AddCheckProduct(r) \/ AddFindOne(r) \/ AddUpdate(r)
       \/ AddPreSave(r) \/ AddInsert(r)
  \/ \E r \in Reqs, u \in Callers, notes \in BOOLEAN : StartCheckout(r, u, notes)
  \/ \E r \in Reqs :
       \/ CheckoutReadCart(r) \/ CheckoutDeleteInvalid(r) \/ CheckoutCreate(r)
       \/ CheckoutCreateFails(r)
       \/ CheckoutSaveNotes(r) \/ CheckoutClearCart(r) \/ CheckoutRespond(r)
  \/ \E u \in Callers, id \in 1..nextCartId, q \in QuantityInputs : UpdateCartItem(u, id, q)
  \/ \E u \in Callers, id \in 1..nextCartId : RemoveFromCart(u, id)
  \/ \E u \in Callers : ClearCart(u) \/ GetCart(u)
  \/ \E u \in Callers, p \in ProductIds, body \in ProductPatches : UpdateProduct(u, p, body)
  \/ \E u \in Callers, p \in ProductIds : DeleteProduct(u, p)
  \/ Crash

Spec == Init /\ [][Next]_vars

\* ------------------------------------------------------------ properties
\* Slot r takes a step.
StepOf(r) == reqs'[r] # reqs[r]

\* The entry of a cart, as the checkout read it, that the purchase workflow is
\* meant to buy: its listing exists, is on sale and is not the buyer's own.
MeantValid(item, buyer) ==
  item.product.exists /\ item.product.isAvailable /\ item.product.user # buyer

\* The exact sum of quantity x priceAtPurchase over the lines of a Purchase.
LinesSum(doc) ==
  LET f[i \in 0..Len(doc.products)] ==
        IF i = 0 THEN 0
        ELSE f[i - 1] + doc.products[i].quantity * doc.products[i].priceAtPurchase
  IN f[Len(doc.products)]

\* total is exact rounded to whole cents, halves up.
IsRoundedToCents(total, exact) ==
  total % 10 = 0 /\ total - exact <= 5 /\ exact - total < 5

\* C1: in every reachable state the total of each stored Purchase is the sum of
\* quantity x priceAtPurchase over its lines, rounded to cents, after the save
\* that creates it and after the later save that stores the notes.
C1_TotalIsSumOfLines ==
  \A i \in 1..Len(purchases) :
    IsRoundedToCents(purchases[i].total, LinesSum(purchases[i]))

\* A Purchase of two lines that was saved a second time, with its notes.
C1_Witness ==
  \E i \in 1..Len(purchases) :
    /\ purchases[i].notes
    /\ Len(purchases[i].products) >= 2
    /\ purchases[i].total = LinesSum(purchases[i])

\* C2: when a checkout has cleared the cart, the Purchase it created holds one
\* line for each valid entry of the cart it read (same listing, same quantity),
\* none for an invalid entry, and the buyer's cart holds no entry.
C2_MixedCartCheckout ==
  [][\A r \in Reqs :
       (reqs[r].pc = "co_clear" /\ reqs'[r].pc = "co_respond") =>
         LET doc == purchases'[reqs[r].pur]
             buyer == reqs[r].user
             read == reqs[r].valid
             meant == {i \in 1..Len(read) : MeantValid(read[i], buyer)}
         IN /\ UserItems(cart', buyer) = {}
            /\ Len(doc.products) = Cardinality(meant)
            /\ \A i \in meant : \E j \in 1..Len(doc.products) :
                 /\ doc.products[j].product = read[i].product.id
                 /\ doc.products[j].quantity = read[i].quantity]_vars

\* C3: no stored Purchase holds a line whose seller is the Purchase's own buyer.
C3_NoSelfPurchase ==
  \A i \in 1..Len(purchases) : \A j \in 1..Len(purchases[i].products) :
    purchases[i].products[j].seller # purchases[i].user

\* C4: an add for a listing on sale that the caller owns is answered with the
\* own-product error and leaves the cart store as it was.
C4_AddOwnListingFails ==
  [][\A r \in Reqs :
       (/\ reqs[r].pc = "add_product"
        /\ StepOf(r)
        /\ products[reqs[r].product].exists
        /\ products[reqs[r].product].isAvailable
        /\ products[reqs[r].product].user = reqs[r].user) =>
         /\ last' = "add:400:own"
         /\ reqs'[r] = Idle
         /\ cart' = cart]_vars

\* C5: a checkout by a buyer whose cart holds no entry is answered with the
\* empty-cart error, and neither its arrival nor its answer writes to the cart,
\* purchase or listing store.
C5_EmptyCartCheckout ==
  [][\A r \in Reqs :
       /\ (reqs[r].pc = "idle" /\ reqs'[r].kind = "checkout") =>
            UNCHANGED <<products, cart, purchases, nextCartId>>
       /\ (reqs[r].pc = "co_cart" /\ StepOf(r) /\ UserItems(cart, reqs[r].user) = {}) =>
            /\ last' = "checkout:400:empty"
            /\ reqs'[r] = Idle
            /\ UNCHANGED <<products, cart, purchases, nextCartId>>]_vars

\* The empty-cart answer was just sent, with Purchases and cart items of other
\* accounts in the stores.
C5_Witness ==
  /\ last = "checkout:400:empty"
  /\ cart # {}

\* The stored cart entry that the purchase workflow is meant to drop: its
\* listing is missing, off sale or the entry owner's own.
MeantInvalid(e) ==
  \/ ~products[e.product].exists
  \/ ~products[e.product].isAvailable
  \/ products[e.product].user = e.user

\* C6: a checkout that reads a non-empty cart holding only invalid entries
\* (listing missing, off sale or the buyer's own) goes on to delete all of them,
\* creates no Purchase and is answered with the no-valid-items error.
C6_AllInvalidCheckout ==
  [][\A r \in Reqs :
       /\ (/\ reqs[r].pc = "co_cart"
           /\ StepOf(r)
           /\ UserItems(cart, reqs[r].user) # {}
           /\ \A e \in UserItems(cart, reqs[r].user) : MeantInvalid(e)) =>
            /\ reqs'[r].pc = "co_delete"
            /\ reqs'[r].valid = <<>>
            /\ {reqs'[r].invalid[i].cartItemId : i \in 1..Len(reqs'[r].invalid)}
                 = {e.id : e \in UserItems(cart, reqs[r].user)}
       /\ (reqs[r].pc = "co_delete" /\ StepOf(r) /\ reqs[r].valid = <<>>) =>
            /\ last' = "checkout:400:novalid"
            /\ purchases' = purchases
            /\ \A i \in 1..Len(reqs[r].invalid) :
                 ~\E e \in cart' : e.id = reqs[r].invalid[i].cartItemId]_vars

\* C7: the step that stores the Purchase leaves the cart as it is, the clearing
\* of the cart is a later step, and a process that stops in between takes
\* nothing back: the Purchase stays stored beside the entries it was made from.
C7_PurchaseThenCrash ==
  [][/\ \A r \in Reqs :
          (reqs[r].pc = "co_create" /\ StepOf(r) /\ reqs'[r].pur # 0) =>
            /\ Len(purchases') = Len(purchases) + 1
            /\ cart' = cart
            /\ reqs'[r].pc \in {"co_notes", "co_clear"}
     /\ (up /\ ~up') => UNCHANGED <<cart, purchases, products>>]_vars

\* The process stopped after a checkout stored its Purchase and before it
\* cleared the cart: every line of the Purchase still has its cart entry.
C7_Witness ==
  /\ ~up
  /\ \E r \in Reqs :
       /\ reqs[r].pc \in {"co_notes", "co_clear"}
       /\ reqs[r].pur \in 1..Len(purchases)
       /\ \A j \in 1..Len(purchases[reqs[r].pur].products) :
            \E e \in cart :
              /\ e.user = reqs[r].user
              /\ e.product = purchases[reqs[r].pur].products[j].product
              /\ e.quantity = purchases[reqs[r].pur].products[j].quantity

\* C8: no step of a checkout writes to the listing store.
C8_CheckoutKeepsListings ==
  [][\A r \in Reqs :
       ((reqs[r].kind = "checkout" \/ reqs'[r].kind = "checkout") /\ StepOf(r)) =>
         products' = products]_vars

\* Two checkouts of different buyers are in flight at once, each has stored a
\* Purchase with a line for the same listing, and the listing is still on sale.
C8_Witness ==
  \E r1, r2 \in Reqs :
    /\ reqs[r1].user # reqs[r2].user
    /\ reqs[r1].pur # 0 /\ reqs[r2].pur # 0
    /\ \E p \in ProductIds :
         /\ products[p].exists /\ products[p].isAvailable
         /\ products[p].user \notin {reqs[r1].user, reqs[r2].user}
         /\ \A r \in {r1, r2} :
              \E j \in 1..Len(purchases[reqs[r].pur].products) :
                purchases[reqs[r].pur].products[j].product = p

\* C9: in every reachable state the cart store holds at most one entry for an
\* (owner, listing) pair.
C9_OneEntryPerPair ==
  \A e1, e2 \in cart :
    (e1.user = e2.user /\ e1.product = e2.product) => e1 = e2

\* Two adds of one account for one listing both found no entry; the first has
\* inserted its entry and the second is about to insert.
C9_Witness ==
  \E r \in Reqs :
    /\ reqs[r].pc = "add_insert"
    /\ \E e \in cart : e.user = reqs[r].user /\ e.product = reqs[r].product

\* C10: a successful add of quantity q creates one entry of quantity min(q, 10)
\* for a listing not in the cart, sets the quantity k of the entry already there
\* to min(k + q, 10) without a second entry, and leaves every stored quantity
\* in 1..10.
C10_AddSetsQuantity ==
  [][\A r \in Reqs :
       (StepOf(r) /\ last' = "add:201") =>
         LET q == reqs[r].qty.v
             mine == {e \in cart : e.user = reqs[r].user /\ e.product = reqs[r].product}
         IN /\ \A e \in cart' : e.quantity \in MinQuantity..MaxQuantity
            /\ mine = {} =>
                 \E e \in cart' :
                   /\ cart' = cart \cup {e} /\ e \notin cart
                   /\ e.user = reqs[r].user /\ e.product = reqs[r].product
                   /\ e.quantity = IF q < MaxQuantity THEN q ELSE MaxQuantity
            /\ \A e \in mine :
                 (e = reqs[r].item) =>
                   cart' = (cart \ {e}) \cup
                     {[e EXCEPT !.quantity =
                         IF e.quantity + q < MaxQuantity THEN e.quantity + q
                         ELSE MaxQuantity]}]_vars

\* C11: an add whose listing does not exist when the handler looks it up is
\* answered with the not-found error, an add whose listing is off sale with the
\* unavailable error; neither writes to the cart store. A listing that goes
\* missing or off sale later, before the new entry is saved, makes the save
\* fail, again without a write.
C11_AddMissingOrUnavailable ==
  [][\A r \in Reqs :
       /\ (reqs[r].pc = "add_product" /\ StepOf(r)) =>
            LET product == products[reqs[r].product] IN
              /\ ~product.exists =>
                   last' = "add:404:product" /\ reqs'[r] = Idle /\ cart' = cart
              /\ (product.exists /\ ~product.isAvailable) =>
                   last' = "add:400:unavailable" /\ reqs'[r] = Idle /\ cart' = cart
       /\ (/\ reqs[r].pc = "add_presave"
           /\ StepOf(r)
           /\ \/ ~products[reqs[r].product].exists
              \/ ~products[reqs[r].product].isAvailable) =>
            last' = "add:500" /\ reqs'[r] = Idle /\ cart' = cart]_vars

\* The unavailable error was just sent for a listing that exists and is off
\* sale, with entries in the cart store.
C11_Witness ==
  /\ last = "add:400:unavailable"
  /\ cart # {}
  /\ \E p \in ProductIds : products[p].exists /\ ~products[p].isAvailable

\* The listing of the stored cart entry e is missing or off sale.
ListingGone(e) == ~products[e.product].exists \/ ~products[e.product].isAvailable

\* C12: a quantity update (with a quantity the validation accepts) by the owner
\* of an entry whose listing is missing or off sale is answered with the
\* unavailable error and deletes that entry: its quantity is not updated and
\* every other entry stays as it was.
C12_SetQuantityCleansUp ==
  [][\A u \in Callers, id \in 1..nextCartId, q \in QuantityInputs :
       (/\ UpdateCartItem(u, id, q)
        /\ ValidateUpdateCartItem(q)
        /\ \E e \in cart : e.id = id /\ e.user = u /\ ListingGone(e)) =>
         /\ last' = "update:400:unavailable"
         /\ ~\E e \in cart' : e.id = id
         /\ cart' = {e \in cart : e.id # id}]_vars

\* The unavailable error of a quantity update was just sent and other entries
\* are still stored.
C12_Witness ==
  /\ last = "update:400:unavailable"
  /\ cart # {}
  /\ \E p \in ProductIds : ~products[p].exists \/ ~products[p].isAvailable

\* Account u's request takes a step that can write to the cart store.
CartStepOf(u) ==
  \/ \E r \in Reqs : StepOf(r) /\ (reqs[r].user = u \/ reqs'[r].user = u)
  \/ \E id \in 1..nextCartId, q \in QuantityInputs : UpdateCartItem(u, id, q)
  \/ \E id \in 1..nextCartId : RemoveFromCart(u, id)
  \/ ClearCart(u)
  \/ GetCart(u)

\* C13: a quantity update (with a quantity the validation accepts) or a remove
\* of an entry that another account owns is answered with the forbidden error
\* and leaves the cart store as it was; and no step of an add, quantity update,
\* remove, view, clear or checkout of account A creates, changes or deletes an
\* entry of an account B other than A.
C13_OthersEntriesUntouched ==
  [][/\ \A u \in Callers, id \in 1..nextCartId, q \in QuantityInputs :
          (/\ UpdateCartItem(u, id, q)
           /\ ValidateUpdateCartItem(q)
           /\ \E e \in cart : e.id = id /\ e.user # u) =>
            last' = "update:403" /\ cart' = cart
     /\ \A u \in Callers, id \in 1..nextCartId :
          (RemoveFromCart(u, id) /\ \E e \in cart : e.id = id /\ e.user # u) =>
            last' = "remove:403" /\ cart' = cart
     /\ \A u \in Callers :
          CartStepOf(u) =>
            \A b \in Users \ {u} : UserItems(cart', b) = UserItems(cart, b)]_vars

\* The forbidden error of a remove was just sent, and both accounts hold entries.
C13_Witness ==
  /\ last = "remove:403"
  /\ \A u \in Callers : UserItems(cart, u) # {}

\* C14: for every entry an account holds, a remove of it by that account
\* succeeds and deletes it, and the same remove sent a second time succeeds as
\* well and leaves the cart store as the first remove left it.
C14_RemoveIsIdempotent ==
  \A e \in cart :
    LET first == RemoveFromCartResult(cart, e.user, e.id)
        second == RemoveFromCartResult(first.store, e.user, e.id)
    IN /\ first.code = "remove:200"
       /\ e \notin first.store
       /\ second.code = "remove:200"
       /\ second.store = first.store

\* The exact sum of quantity x the listing's price over returned cart items.
ItemsSum(items) ==
  LET f[i \in 0..Len(items)] ==
        IF i = 0 THEN 0
        ELSE f[i - 1] + items[i].quantity * products[items[i].product.id].price
  IN f[Len(items)]

DroppedIds(records) == {records[i].cartItemId : i \in 1..Len(records)}

ItemIds(items) == {items[i].id : i \in 1..Len(items)}

\* C16: a checkout sorts every entry of the cart it read into the items to buy
\* or the dropped items, never both, with one record per dropped entry; its
\* cleanup step deletes only entries that have a record and leaves none of the
\* recorded entries in the store; the no-valid-items answer carries that list
\* as unavailableItems, the success answer carries it as removedUnavailableItems
\* (nothing when the list is empty), and the Purchase of the success answer has
\* one line for each item to buy.
C16_DroppedItemsReported ==
  [][\A r \in Reqs :
       /\ (reqs[r].pc = "co_cart" /\ StepOf(r) /\ reqs'[r].pc # "idle") =>
            /\ ItemIds(reqs'[r].valid) \cup DroppedIds(reqs'[r].invalid)
                 = {e.id : e \in UserItems(cart, reqs[r].user)}
            /\ ItemIds(reqs'[r].valid) \cap DroppedIds(reqs'[r].invalid) = {}
            /\ Cardinality(DroppedIds(reqs'[r].invalid)) = Len(reqs'[r].invalid)
       /\ (reqs[r].pc = "co_delete" /\ StepOf(r)) =>
            /\ \A e \in cart \ cart' : e.id \in DroppedIds(reqs[r].invalid)
            /\ \A e \in cart' : e.id \notin DroppedIds(reqs[r].invalid)
            /\ last' = "checkout:400:novalid" =>
                 data'.unavailableItems = reqs[r].invalid
       /\ (reqs[r].pc = "co_respond" /\ StepOf(r)) =>
            LET doc == purchases[reqs[r].pur] IN
              /\ last' = "checkout:201"
              /\ data'.purchase = doc
              /\ IF reqs[r].invalid # <<>>
                   THEN /\ data'.removedUnavailableItems.t = "Array"
                        /\ data'.removedUnavailableItems.v = reqs[r].invalid
                   ELSE data'.removedUnavailableItems.t = "Undefined"
              /\ Len(doc.products) = Len(reqs[r].valid)
              /\ \A i \in 1..Len(reqs[r].valid) :
                   /\ doc.products[i].product = reqs[r].valid[i].product.id
                   /\ doc.products[i].quantity = reqs[r].valid[i].quantity]_vars

\* A checkout just answered with a Purchase and a list of dropped items.
C16_Witness ==
  /\ last = "checkout:201"
  /\ data.removedUnavailableItems.t = "Array"
  /\ Len(data.removedUnavailableItems.v) >= 1
  /\ Len(data.purchase.products) >= 1

\* C17: the items a checkout reads carry the title, image, price and owner its
\* listings have at that moment, and each line of the Purchase it stores takes
\* its title, image, priceAtPurchase and seller from the item read, whatever
\* the listing was when the entry was added to the cart.
C17_LinesSnapshotListing ==
  [][\A r \in Reqs :
       /\ (reqs[r].pc = "co_cart" /\ StepOf(r) /\ reqs'[r].pc # "idle") =>
            \A i \in 1..Len(reqs'[r].valid) :
              LET read == reqs'[r].valid[i].product
                  listing == products[read.id]
              IN /\ read.price = listing.price
                 /\ read.title = listing.title
                 /\ read.image = listing.image
                 /\ read.user = listing.user
       /\ (reqs[r].pc = "co_create" /\ StepOf(r) /\ reqs'[r].pur # 0) =>
            LET doc == purchases'[reqs'[r].pur] IN
              /\ Len(doc.products) = Len(reqs[r].valid)
              /\ \A i \in 1..Len(reqs[r].valid) :
                   LET read == reqs[r].valid[i].product IN
                     /\ doc.products[i].product = read.id
                     /\ doc.products[i].priceAtPurchase = read.price
                     /\ doc.products[i].title = read.title
                     /\ doc.products[i].image = read.image
                     /\ doc.products[i].seller = read.user]_vars

\* A Purchase holds a line with the edited title, image and price of a listing
\* that was created with other ones.
C17_Witness ==
  \E i \in 1..Len(purchases) : \E j \in 1..Len(purchases[i].products) :
    LET line == purchases[i].products[j] IN
      /\ line.title = EditedText
      /\ line.image = EditedText
      /\ line.priceAtPurchase # RoundCents(CreatedPrice[line.product])

\* C18: no step changes the buyer, the lines or the total of a stored Purchase,
\* and no step removes a Purchase from the store.
C18_PurchaseImmutable ==
  [][/\ Len(purchases') >= Len(purchases)
     /\ \A i \in 1..Len(purchases) :
          /\ purchases'[i].user = purchases[i].user
          /\ purchases'[i].products = purchases[i].products
          /\ purchases'[i].total = purchases[i].total]_vars

\* A Purchase whose notes were saved holds a line for a listing that has since
\* been deleted or has another price.
C18_Witness ==
  \E i \in 1..Len(purchases) : \E j \in 1..Len(purchases[i].products) :
    LET line == purchases[i].products[j] IN
      /\ purchases[i].notes
      /\ \/ ~products[line.product].exists
         \/ products[line.product].price # line.priceAtPurchase

\* C19: a clear by account u deletes every entry of u and no other entry, and
\* the deletedCount it returns is the number of entries u held just before
\* (0 for an empty cart).
C19_ClearDeletesOwnEntries ==
  [][\A u \in Callers :
       ClearCart(u) =>
         /\ last' = "clear:200"
         /\ UserItems(cart', u) = {}
         /\ cart' = cart \ UserItems(cart, u)
         /\ data'.deletedCount = Cardinality(UserItems(cart, u))]_vars

\* A clear just deleted two entries and entries of another account are stored.
C19_Witness ==
  /\ last = "clear:200"
  /\ data.deletedCount >= 2
  /\ cart # {}

\* C20: an update or a delete of an existing listing by an account that does
\* not own it is answered with 403 and leaves the listing store as it was; and
\* every step that changes or deletes a listing is an update or a delete sent
\* by the listing's owner.
C20_OnlyOwnerChangesListing ==
  [][/\ \A u \in Callers, p \in ProductIds, body \in ProductPatches :
          (UpdateProduct(u, p, body) /\ products[p].exists /\ products[p].user # u) =>
            last' = "product:403" /\ products' = products
     /\ \A u \in Callers, p \in ProductIds :
          (DeleteProduct(u, p) /\ products[p].exists /\ products[p].user # u) =>
            last' = "product:403" /\ products' = products
     /\ \A p \in ProductIds :
          products'[p] # products[p] =>
            \/ \E body \in ProductPatches : UpdateProduct(products[p].user, p, body)
            \/ DeleteProduct(products[p].user, p)]_vars

\* The 403 of a listing handler was just sent, after an owner edited or deleted
\* a listing.
C20_Witness ==
  /\ last = "product:403"
  /\ \E p \in ProductIds : ~products[p].exists \/ products[p].title = EditedText

\* C26: every entry that the final clear of a checkout deletes was among the
\* items the checkout read, so it is a line of the Purchase or a dropped item.
C26_ClearedEntriesAccounted ==
  [][\A r \in Reqs :
       (reqs[r].pc = "co_clear" /\ StepOf(r)) =>
         \A e \in cart \ cart' :
           e.id \in ItemIds(reqs[r].valid) \cup DroppedIds(reqs[r].invalid)]_vars

\* C27: no two checkouts have each stored a Purchase made from the same cart
\* entry.
C27_EntriesPurchasedOnce ==
  \A r, s \in Reqs :
    (r # s /\ reqs[r].pur # 0 /\ reqs[s].pur # 0) =>
      ItemIds(reqs[r].valid) \cap ItemIds(reqs[s].valid) = {}

\* C28: an add of a number q that answers 201 for an entry already stored
\* leaves that entry with min(k + q, 10), k being the quantity stored just
\* before the save, so that no increment saved in between is lost.
C28_NoLostIncrement ==
  [][\A r \in Reqs :
       (/\ reqs[r].pc = "add_update"
        /\ StepOf(r)
        /\ last' = "add:201"
        /\ reqs[r].qty.t = "Number") =>
         \A e \in cart :
           e.id = reqs[r].item.id =>
             \E f \in cart' :
               /\ f.id = e.id
               /\ f.quantity = IF e.quantity + reqs[r].qty.v < MaxQuantity
                                 THEN e.quantity + reqs[r].qty.v ELSE MaxQuantity]_vars

\* C30: a checkout whose save of the Purchase fails is answered with 500 and
\* that step writes neither a Purchase nor to the cart; the cleanup step before
\* it deleted only entries on the dropped list and left every entry read as
\* valid as it was.
C30_FailedPersistKeepsCart ==
  [][\A r \in Reqs :
       /\ (reqs[r].pc = "co_create" /\ StepOf(r) /\ reqs'[r].pur = 0) =>
            /\ last' = "checkout:500"
            /\ purchases' = purchases
            /\ cart' = cart
       /\ (reqs[r].pc = "co_delete" /\ StepOf(r)) =>
            /\ purchases' = purchases
            /\ \A e \in cart \ cart' : e.id \in DroppedIds(reqs[r].invalid)
            /\ \A e \in cart : e.id \in ItemIds(reqs[r].valid) => e \in cart']_vars

\* A checkout just failed with 500: no Purchase is stored, the entry added
\* after server start was deleted by the cleanup, and the entries of the
\* initial cart are all still stored.
C30_Witness ==
  /\ last = "checkout:500"
  /\ purchases = <<>>
  /\ nextCartId > Cardinality(InitialCart) + 1
  /\ cart = InitialCart
  /\ \E p \in ProductIds : ~products[p].exists \/ ~products[p].isAvailable

\* ================================================== the catalog handlers
\* The listing and purchase-history endpoints, each served in one step, over
\* a store of listings that carry the fields the search reads.

\* ---------------------------------------------------------------- bounds
\* Requests served in one behaviour of the catalog.
MaxCatalogRequests == 2
\* Listing ids the store can hold; the first three exist at the start.
MaxListings == 4
CatalogIds == 1..MaxListings

\* ------------------------------------------------------------ JS values
\* A text is a sequence of characters and words; " " is a whitespace character.
Space == " "
Comma == ","
Text(s) == [t |-> "String", f |-> "text", v |-> s]
NaN == [t |-> "NaN", f |-> "", v |-> 0]
Null == [t |-> "Null", f |-> "", v |-> 0]

\* Boolean(x): undefined, null, NaN, 0 and the empty string are falsy.
Truthy(x) ==
  IF x.t \in {"Undefined", "Null", "NaN"} THEN FALSE
  ELSE IF x.t = "Number" THEN x.v # 0
  ELSE IF x.t = "String" /\ x.f = "text" THEN x.v # <<>>
  ELSE TRUE

\* a || b
OrElse(a, b) == IF Truthy(a) THEN a ELSE b

\* parseInt(x) and parseFloat(x): the number a decimal text spells, NaN for
\* undefined and for a text that starts with no digit.
ParseInt(x) == IF x.t = "String" /\ x.f = "dec" THEN Number(x.v) ELSE NaN
ParseFloat(x) == IF x.t = "String" /\ x.f = "dec" THEN Number(x.v) ELSE NaN
IsNaN(x) == x.t = "NaN"

\* Math.max(a, b) for a number a.
MathMax(a, b) == IF b.v > a THEN b.v ELSE a

RECURSIVE TrimStart(_)
TrimStart(s) == IF s # <<>> /\ Head(s) = Space THEN TrimStart(Tail(s)) ELSE s

RECURSIVE TrimEnd(_)
TrimEnd(s) ==
  IF s # <<>> /\ s[Len(s)] = Space THEN TrimEnd(SubSeq(s, 1, Len(s) - 1)) ELSE s

\* s.trim()
Trim(s) == TrimEnd(TrimStart(s))

\* s.split(','): the pieces between the commas.
RECURSIVE Split(_)
Split(s) ==
  IF \E i \in 1..Len(s) : s[i] = Comma
    THEN LET i == CHOOSE k \in 1..Len(s) :
                    s[k] = Comma /\ \A j \in 1..(k - 1) : s[j] # Comma
         IN <<SubSeq(s, 1, i - 1)>> \o Split(SubSeq(s, i + 1, Len(s)))
    ELSE <<s>>

\* --------------------------------------------------------- Product schema
Categories == {<<"Electronics">>, <<"Clothing">>, <<"Furniture">>, <<"Books">>,
               <<"Miscellaneous">>}
Conditions == {<<"New">>, <<"Like", Space, "New">>, <<"Good">>, <<"Fair">>, <<"Poor">>}
\* No listing under an id of the catalog.
NoListing ==
  [exists |-> FALSE, user |-> 0, title |-> 0, image |-> 0, price |-> 0,
   isAvailable |-> FALSE, category |-> <<>>, condition |-> <<>>,
   location |-> <<>>, tags |-> {}, words |-> {}]

\* The listings of the catalog at the start: words are the terms of the text
\* index (title, description and tags).
InitialCatalog ==
  [p \in CatalogIds |->
     IF p = 1
       THEN [exists |-> TRUE, user |-> 1, title |-> CreatedText, image |-> CreatedText,
             price |-> 10000, isAvailable |-> TRUE, category |-> <<"Books">>,
             condition |-> <<"Good">>, location |-> <<"Pune">>,
             tags |-> {<<"eco">>}, words |-> {"lamp", "eco"}]
     ELSE IF p = 2
       THEN [exists |-> TRUE, user |-> 1, title |-> CreatedText, image |-> CreatedText,
             price |-> 2510, isAvailable |-> TRUE, category |-> <<"Books">>,
             condition |-> <<"New">>, location |-> <<"New", Space, "Delhi">>,
             tags |-> {}, words |-> {"desk"}]
     ELSE IF p = 3
       THEN [exists |-> TRUE, user |-> 2, title |-> CreatedText, image |-> CreatedText,
             price |-> 500, isAvailable |-> FALSE, category |-> <<"Furniture">>,
             condition |-> <<"Good">>, location |-> <<>>,
             tags |-> {<<"eco">>}, words |-> {"lamp", "desk", "eco"}]
     ELSE NoListing]

\* The purchase history at the start: account 2 bought twice from account 1.
InitialPurchases ==
  <<PurchasePreSave([user |-> 2, notes |-> FALSE, products |->
      <<[product |-> 1, quantity |-> 1, priceAtPurchase |-> 10000,
         title |-> CreatedText, image |-> CreatedText, seller |-> 1]>>,
      total |-> 0]),
    PurchasePreSave([user |-> 2, notes |-> FALSE, products |->
      <<[product |-> 2, quantity |-> 2, priceAtPurchase |-> 2510,
         title |-> CreatedText, image |-> CreatedText, seller |-> 1]>>,
      total |-> 0])>>

InitCatalog ==
  /\ products = InitialCatalog
  /\ purchases = InitialPurchases
  /\ cart = {}
  /\ accounts = InitialAccounts
  /\ reqs = [r \in Reqs |-> Idle]
  /\ last = "none"
  /\ data = NoData
  /\ nextCartId = 1
  /\ served = 0
  /\ up = TRUE

\* One more request of the catalog is served.
CatalogServe == served < MaxCatalogRequests

CatalogRest == UNCHANGED <<cart, reqs, nextCartId, up, accounts>>

\* ---------------------------------------------------------- createProduct
\* Request bodies of POST /api/products: one listing text with the prices
\* 10.004, 10.005, 2.507, "19.996", 99999.989, -0.01 and 99999.994.
CreatePrices ==
  {Number(10004), Number(10005), Number(2507), String(19996), Number(99999989),
   Number(0 - 10), Number(99999994)}

\* body('price').isFloat({ min: 0, max: 99999.99 })
ValidateProduct(body) == IsFloat(body.price, MinPrice, MaxPrice)

\* new Product({ user: req.user.id, ... }) for a body whose price is price.
NewProduct(u, body) ==
  [exists |-> TRUE, user |-> u, title |-> EditedText, image |-> EditedText,
   price |-> body.price.v, isAvailable |-> TRUE, category |-> <<"Books">>,
   condition |-> <<"Good">>, location |-> <<"Delhi">>,
   tags |-> {<<"eco">>}, words |-> {"lamp", "eco"}]

\* POST /api/products
CreateProduct(u, body) ==
  /\ CatalogServe
  /\ served' = served + 1
  /\ IF ~ValidateProduct(body)
       THEN last' = "product:400" /\ data' = NoData /\ UNCHANGED products
     ELSE /\ \E p \in CatalogIds : ~products[p].exists
          /\ LET id == CHOOSE p \in CatalogIds :
                         /\ ~products[p].exists
                         /\ \A o \in CatalogIds : ~products[o].exists => p <= o
             IN /\ products' = [products EXCEPT ![id] =
                      ProductPreSave(NoListing, NewProduct(u, body))]
                /\ last' = "product:201"
                /\ data' = [kind |-> "product", id |-> id]
  /\ UNCHANGED purchases
  /\ CatalogRest

\* Request bodies of PUT /api/products/:id in the catalog: a price (10.005,
\* 2.507, "19.996" or the invalid -0.01), a new title alone, or the
\* listing taken off sale or put back.
CatalogPatches ==
  {[title |-> Undefined, image |-> Undefined, price |-> x, isAvailable |-> Undefined] :
     x \in {Number(10005), Number(2507), String(19996), Number(0 - 10)}}
  \cup
  {[title |-> String(EditedText), image |-> Undefined, price |-> Undefined,
    isAvailable |-> Undefined]}
  \cup
  {[title |-> Undefined, image |-> Undefined, price |-> Undefined, isAvailable |-> x] :
     x \in {Number(0), Number(1)}}

\* ------------------------------------------------------------ getProducts
\* const page = Math.max(1, parseInt(req.query.page) || 1)
EffectivePage(q) == MathMax(1, OrElse(ParseInt(q.page), Number(1)))

\* A page size taken from the query as it is.
UnclampedLimit(q) == OrElse(ParseInt(q.limit), Number(10)).v

\* const limit = Math.min(50, Math.max(1, parseInt(req.query.limit) || 10))
EffectiveLimit(q) ==
  MathMin(Number(MathMax(1, OrElse(ParseInt(q.limit), Number(10)))), 50)

\* req.query.tags ? req.query.tags.split(',').map(tag => tag.trim()) : null
QueryTags(q) ==
  IF Truthy(q.tags)
    THEN Array([i \in 1..Len(Split(q.tags.v)) |-> Trim(Split(q.tags.v)[i])])
    ELSE Null

\* The category, condition and price-range checks that answer 400.
GetProductsInvalid(q) ==
  \/ Truthy(q.category) /\ q.category.v \notin Categories
  \/ Truthy(q.condition) /\ q.condition.v \notin Conditions
  \/ /\ ~IsNaN(ParseFloat(q.minPrice))
     /\ ~IsNaN(ParseFloat(q.maxPrice))
     /\ ParseFloat(q.minPrice).v > ParseFloat(q.maxPrice).v

\* searchOptions
SearchOptions(q) ==
  [search |-> q.search, category |-> q.category, condition |-> q.condition,
   minPrice |-> IF ~IsNaN(ParseFloat(q.minPrice)) THEN ParseFloat(q.minPrice) ELSE Undefined,
   maxPrice |-> IF ~IsNaN(ParseFloat(q.maxPrice)) THEN ParseFloat(q.maxPrice) ELSE Undefined,
   location |-> q.location, tags |-> QueryTags(q),
   page |-> EffectivePage(q), limit |-> EffectiveLimit(q)]

\* The query object Product.advancedSearch builds from its options; a
\* condition it leaves out is undefined.
AdvancedSearchQuery(o) ==
  [isAvailable |-> TRUE,
   text |-> IF Truthy(o.search) /\ Truthy(Text(Trim(o.search.v)))
              THEN Text(Trim(o.search.v)) ELSE Undefined,
   category |-> IF Truthy(o.category) THEN o.category ELSE Undefined,
   condition |-> IF Truthy(o.condition) THEN o.condition ELSE Undefined,
   gte |-> IF o.minPrice.t # "Undefined" THEN o.minPrice ELSE Undefined,
   lte |-> IF o.maxPrice.t # "Undefined" THEN o.maxPrice ELSE Undefined,
   location |-> IF Truthy(o.location) /\ Truthy(Text(Trim(o.location.v)))
                  THEN Text(Trim(o.location.v)) ELSE Undefined,
   tags |-> IF Truthy(o.tags) /\ o.tags.t = "Array" /\ Len(o.tags.v) > 0
              THEN o.tags ELSE Undefined]

\* countFilter, the query object getProducts builds for countDocuments.
CountFilter(q) ==
  [isAvailable |-> TRUE,
   text |-> IF Truthy(q.search) THEN Text(Trim(q.search.v)) ELSE Undefined,
   category |-> IF Truthy(q.category) THEN q.category ELSE Undefined,
   condition |-> IF Truthy(q.condition) THEN q.condition ELSE Undefined,
   gte |-> IF ~IsNaN(ParseFloat(q.minPrice)) THEN ParseFloat(q.minPrice) ELSE Undefined,
   lte |-> IF ~IsNaN(ParseFloat(q.maxPrice)) THEN ParseFloat(q.maxPrice) ELSE Undefined,
   location |-> IF Truthy(q.location) THEN Text(Trim(q.location.v)) ELSE Undefined,
   tags |-> IF Truthy(QueryTags(q)) /\ Len(QueryTags(q).v) > 0
              THEN QueryTags(q) ELSE Undefined]

\* { $text: { $search: s } }: a document matches when the text index holds
\* one of the terms of s; a search string without terms matches no document.
TextMatches(s, doc) == \E i \in 1..Len(s) : s[i] # Space /\ s[i] \in doc.words

\* { $regex: new RegExp(pattern, 'i') }: the pattern occurs in the value; the
\* empty pattern occurs in every value.
RegexMatches(pattern, value) ==
  \E i \in 0..(Len(value) - Len(pattern)) :
    SubSeq(value, i + 1, i + Len(pattern)) = pattern

\* A document of the listing store matches a query object.
Matches(query, doc) ==
  /\ doc.exists
  /\ doc.isAvailable = query.isAvailable
  /\ query.text.t # "Undefined" => TextMatches(query.text.v, doc)
  /\ query.category.t # "Undefined" => doc.category = query.category.v
  /\ query.condition.t # "Undefined" => doc.condition = query.condition.v
  /\ query.gte.t # "Undefined" => doc.price >= query.gte.v
  /\ query.lte.t # "Undefined" => doc.price <= query.lte.v
  /\ query.location.t # "Undefined" => RegexMatches(query.location.v, doc.location)
  /\ query.tags.t # "Undefined" =>
       \E i \in 1..Len(query.tags.v) : query.tags.v[i] \in doc.tags

\* Product.find(query): the ids of the matching listings.
Find(query, store) == {p \in DOMAIN store : Matches(query, store[p])}

\* Product.countDocuments(query)
CountDocuments(query, store) == Cardinality(Find(query, store))

RECURSIVE SortByCreatedAtDesc(_)
\* .sort({ createdAt: -1 }): ids are given in creation order.
SortByCreatedAtDesc(S) ==
  IF S = {} THEN <<>>
  ELSE LET m == CHOOSE x \in S : \A y \in S : y <= x
       IN <<m>> \o SortByCreatedAtDesc(S \ {m})

\* .skip(skip).limit(limit)
SkipLimit(list, skip, limit) ==
  IF skip >= Len(list) THEN <<>>
  ELSE SubSeq(list, skip + 1, IF skip + limit < Len(list) THEN skip + limit ELSE Len(list))

\* A page count that drops the last, partly filled page.
MathFloorDiv(a, b) == a \div b

\* Math.ceil(a / b) for a >= 0 and b > 0.
MathCeilDiv(a, b) == (a + b - 1) \div b

\* Query strings of GET /api/products: every combination of the filters with
\* the default paging, every combination of page and limit without filters,
\* and three queries the validation refuses.
NoQuery ==
  [page |-> Undefined, limit |-> Undefined, search |-> Undefined,
   category |-> Undefined, condition |-> Undefined, minPrice |-> Undefined,
   maxPrice |-> Undefined, location |-> Undefined, tags |-> Undefined]

PageInputs ==
  {Undefined, Text(<<"abc">>), String(0 - 1), String(0), String(1), String(2), String(3)}

LimitInputs ==
  {Undefined, Text(<<"abc">>), String(0 - 1), String(0), String(1), String(2), String(51)}

FilterQueries ==
  {[NoQuery EXCEPT !.search = s, !.category = c, !.condition = d, !.minPrice = lo,
                   !.maxPrice = hi, !.location = l, !.tags = g] :
     s \in {Undefined, Text(<<Space>>), Text(<<"lamp">>)},
     c \in {Undefined, Text(<<"Books">>)},
     d \in {Undefined, Text(<<"Good">>)},
     lo \in {Undefined, String(2510)},
     hi \in {Undefined, String(2510)},
     l \in {Undefined, Text(<<Space>>), Text(<<"Delhi">>)},
     g \in {Undefined, Text(<<"old", Comma, Space, "eco">>)}}

PagingQueries ==
  {[NoQuery EXCEPT !.page = pg, !.limit = lm] : pg \in PageInputs, lm \in LimitInputs}

RefusedQueries ==
  {[NoQuery EXCEPT !.category = Text(<<"Toys">>)],
   [NoQuery EXCEPT !.condition = Text(<<"Used">>)],
   [NoQuery EXCEPT !.minPrice = String(10000), !.maxPrice = String(2510)]}

ProductQueries == FilterQueries \cup PagingQueries \cup RefusedQueries

\* GET /api/products
GetProducts(q) ==
  /\ CatalogServe
  /\ served' = served + 1
  /\ IF GetProductsInvalid(q)
       THEN last' = "products:400" /\ data' = NoData
     ELSE LET o == SearchOptions(q)
              found == SortByCreatedAtDesc(Find(AdvancedSearchQuery(o), products))
              totalProducts == CountDocuments(CountFilter(q), products)
              totalPages == MathCeilDiv(totalProducts, EffectiveLimit(q))
          IN /\ last' = "products:200"
             /\ data' = [kind |-> "products",
                         data |-> SkipLimit(found, (o.page - 1) * o.limit, o.limit),
                         currentPage |-> EffectivePage(q),
                         totalPages |-> totalPages,
                         totalProducts |-> totalProducts,
                         itemsPerPage |-> EffectiveLimit(q),
                         hasNextPage |-> EffectivePage(q) < totalPages,
                         hasPrevPage |-> EffectivePage(q) > 1]
  /\ UNCHANGED <<products, purchases>>
  /\ CatalogRest

\* ----------------------------------------------------------- getPurchases
\* const page = parseInt(req.query.page) || 1; const limit = ... || 10;
\* if (page < 1) page = 1; if (limit < 1 || limit > 50) limit = 10;
\* page and limit are constants, so either assignment throws a TypeError.
PurchasesPaging(q) ==
  LET page == OrElse(ParseInt(q.page), Number(1)).v
      limit == OrElse(ParseInt(q.limit), Number(10)).v
  IN IF page < 1 THEN [throws |-> TRUE, page |-> page, limit |-> limit]
     ELSE IF limit < 1 \/ limit > 50 THEN [throws |-> TRUE, page |-> page, limit |-> limit]
     ELSE [throws |-> FALSE, page |-> page, limit |-> limit]

\* Purchase.find({ user: userId }): positions in the store, newest first.
UserPurchases(u) ==
  SortByCreatedAtDesc({i \in 1..Len(purchases) : purchases[i].user = u})

\* GET /api/purchases
GetPurchases(u, q) ==
  /\ CatalogServe
  /\ served' = served + 1
  /\ LET paging == PurchasesPaging(q)
         totalPurchases == Len(UserPurchases(u))
         totalPages == MathCeilDiv(totalPurchases, paging.limit)
     IN IF paging.throws
          THEN last' = "purchases:500" /\ data' = NoData
          ELSE /\ last' = "purchases:200"
               /\ data' = [kind |-> "purchases",
                           purchases |-> SkipLimit(UserPurchases(u),
                                           (paging.page - 1) * paging.limit, paging.limit),
                           currentPage |-> paging.page,
                           totalPages |-> totalPages,
                           totalPurchases |-> totalPurchases,
                           hasNextPage |-> paging.page < totalPages,
                           hasPrevPage |-> paging.page > 1,
                           limit |-> paging.limit]
  /\ UNCHANGED <<products, purchases>>
  /\ CatalogRest

\* ------------------------------------------------------------ the catalog
NextCatalog ==
  \/ \E u \in Callers, x \in CreatePrices : CreateProduct(u, [price |-> x])
  \/ \E u \in Callers, p \in CatalogIds, body \in CatalogPatches :
       CatalogServe /\ UpdateProduct(u, p, body)
  \/ \E u \in Callers, p \in CatalogIds : CatalogServe /\ DeleteProduct(u, p)
  \/ \E q \in ProductQueries : GetProducts(q)
  \/ \E u \in Callers, q \in PagingQueries : GetPurchases(u, q)

SpecCatalog == InitCatalog /\ [][NextCatalog]_vars

\* ------------------------------------------------- properties of the catalog
\* |a - b|
Distance(a, b) == IF a >= b THEN a - b ELSE b - a

\* C21: every price createProduct or updateProduct persists is a multiple of
\* one cent and lies within half a cent of the price sent (a price with more
\* than two decimals is stored as a nearest cent), a save that sends no price
\* leaves the stored price as it was, and every stored price is a multiple of
\* one cent.
C21_PricesRoundedToCents ==
  [][/\ \A u \in Callers, x \in CreatePrices :
          (CreateProduct(u, [price |-> x]) /\ last' = "product:201") =>
            /\ products'[data'.id].exists /\ ~products[data'.id].exists
            /\ products'[data'.id].price % 10 = 0
            /\ Distance(products'[data'.id].price, x.v) <= 5
     /\ \A u \in Callers, p \in CatalogIds, body \in CatalogPatches :
          (UpdateProduct(u, p, body) /\ last' = "product:200") =>
            IF body.price.t = "Undefined"
              THEN products'[p].price = products[p].price
              ELSE /\ products'[p].price % 10 = 0
                   /\ Distance(products'[p].price, body.price.v) <= 5
     /\ \A p \in CatalogIds : products'[p].exists => products'[p].price % 10 = 0]_vars

\* An edit sent "19.996" and stored 20.00, then a listing sent with 10.005 was
\* created with 10.01.
C21_Witness ==
  /\ last = "product:201"
  /\ products[data.id].price = 10010
  /\ \E p \in CatalogIds :
       /\ p # data.id
       /\ products[p].exists
       /\ products[p].price = 20000
       /\ InitialCatalog[p].price # 20000

\* C22: getProducts refuses no query for its page or limit (missing,
\* non-numeric, zero, negative or large) and answers with a page size in 1..50, a page
\* number of at least 1, totalPages = ceil(totalProducts / page size),
\* hasNextPage exactly when the page is before the last and hasPrevPage
\* exactly when it is after the first.
C22_PagingWithinBounds ==
  [][/\ last' = "products:400" => \A q \in PagingQueries : ~GetProducts(q)
     /\ last' = "products:200" =>
          /\ data'.itemsPerPage >= 1 /\ data'.itemsPerPage <= 50
          /\ data'.currentPage >= 1
          /\ data'.totalPages >= 0
          /\ data'.totalPages * data'.itemsPerPage >= data'.totalProducts
          /\ (data'.totalPages - 1) * data'.itemsPerPage < data'.totalProducts
          /\ data'.hasNextPage <=> data'.currentPage < data'.totalPages
          /\ data'.hasPrevPage <=> data'.currentPage > 1]_vars

\* After a third listing was created, the second page of one listing each is
\* served: it has a page before it and a page after it.
C22_Witness ==
  /\ last = "products:200"
  /\ data.itemsPerPage = 1
  /\ data.currentPage = 2
  /\ data.totalProducts = 3
  /\ data.totalPages = 3
  /\ data.hasNextPage /\ data.hasPrevPage
  /\ data.data = <<2>>

\* C25: getPurchases serves a page below 1 as page 1 and a limit below 1 or
\* above 50 as limit 10.
C25_PurchasesPagingFallsBack ==
  [][\A u \in Callers, q \in PagingQueries : GetPurchases(u, q) =>
       /\ last' = "purchases:200"
       /\ (ParseInt(q.page).t = "Number" /\ ParseInt(q.page).v < 1) =>
            data'.currentPage = 1
       /\ (ParseInt(q.limit).t = "Number" /\
             (ParseInt(q.limit).v < 1 \/ ParseInt(q.limit).v > 50)) =>
            data'.limit = 10]_vars

\* C29: for every combination of filters the count filter of getProducts
\* selects the same listings as the query of advancedSearch, and both select
\* listings on sale only.
C29_CountFilterSameAsSearch ==
  \A q \in ProductQueries : ~GetProductsInvalid(q) =>
    /\ Find(CountFilter(q), products) =
         Find(AdvancedSearchQuery(SearchOptions(q)), products)
    /\ \A p \in Find(CountFilter(q), products) : products[p].isAvailable
    /\ \A p \in Find(AdvancedSearchQuery(SearchOptions(q)), products) :
         products[p].isAvailable

\* ================================================== the account handlers
\* Registration, whose handler interleaves with others at its two database
\* calls, and the authenticate middleware in front of the protected routes.

\* ------------------------------------------------------------- User model
\* Emails a register request sends: the email of account 1 and a new one,
\* each in lower case and with capital letters.
NewEmailName == 4
EmailInputs == {[name |-> n, upper |-> b] : n \in {1, NewEmailName}, b \in BOOLEAN}

\* email.toLowerCase(), also the effect of normalizeEmail() on the letters
\* and of the schema's lowercase: true.
ToLowerCase(email) == [email EXCEPT !.upper = FALSE]

\* User.findByEmail(email): this.findOne({ email: email.toLowerCase() })
FindByEmail(store, email) == {a \in store : a.email = ToLowerCase(email)}

\* The schema without its unique index on email.
EmailIndexMissing(store, email) == TRUE

\* email: { unique: true }: whether the store accepts a new document with
\* this stored email.
EmailIndexAllows(store, email) == \A a \in store : a.email # email

\* new User({ email, ... }): the document as save() stores it, with the next
\* _id and the email in lower case.
NewUser(store, email) ==
  [id |-> Cardinality(store) + 1, email |-> ToLowerCase(email)]

\* --------------------------------------------------------------- register
RegisterRequest(email, pc) == [kind |-> "register", pc |-> pc, email |-> email]

\* generateToken(userId): jwt.sign({ userId }, JWT_SECRET, { expiresIn })
GenerateToken(userId) ==
  [t |-> "String", form |-> "jwt", sig |-> "valid", exp |-> "fresh", userId |-> userId]

\* POST /api/auth/register: validateRegister normalises the email, then the
\* handler starts.
StartRegister(r, email) ==
  /\ Begin(r, RegisterRequest(ToLowerCase(email), "reg_find"))
  /\ last' = "none" /\ data' = NoData
  /\ UNCHANGED <<products, cart, purchases, accounts, nextCartId, up>>

\* const existingUser = await User.findByEmail(email)
RegisterFindOne(r) ==
  /\ up
  /\ reqs[r].pc = "reg_find"
  /\ IF FindByEmail(accounts, reqs[r].email) # {}
       THEN RespondWith(r, "register:400", [kind |-> "conflict", logged |-> FALSE])
       ELSE /\ Goto(r, RegisterRequest(reqs[r].email, "reg_save"))
            /\ last' = "none" /\ data' = NoData
  /\ UNCHANGED <<products, cart, purchases, accounts, nextCartId, served, up>>

\* await user.save(); sendTokenResponse(user, 201, res); a duplicate key
\* error (code 11000) is caught, logged and answered 400.
RegisterSave(r) ==
  /\ up
  /\ reqs[r].pc = "reg_save"
  /\ LET user == NewUser(accounts, reqs[r].email)
     IN IF EmailIndexAllows(accounts, user.email)
          THEN /\ accounts' = accounts \cup {user}
               /\ RespondWith(r, "register:201",
                    [kind |-> "registered", id |-> ObjectId(user.id),
                     token |-> GenerateToken(user.id)])
          ELSE /\ RespondWith(r, "register:400", [kind |-> "conflict", logged |-> TRUE])
               /\ UNCHANGED accounts
  /\ UNCHANGED <<products, cart, purchases, nextCartId, served, up>>

\* ----------------------------------------------------------- authenticate
\* Ids a token can name: the accounts of the start, the first account a
\* register call creates, an account that was removed from the database, and
\* a value that is no ObjectId.
RemovedAccount == 9
NotAnObjectId == 0
TokenSubjects == Users \cup {Cardinality(Users) + 1, RemovedAccount, NotAnObjectId}

\* Tokens a request can carry: signed with the server's secret or another,
\* before or after expiry, and a text that is no JWT.
Tokens ==
  {[t |-> "String", form |-> "jwt", sig |-> g, exp |-> e, userId |-> u] :
     g \in {"valid", "forged"}, e \in {"fresh", "expired"}, u \in TokenSubjects}
  \cup {[t |-> "String", form |-> "garbage", sig |-> "forged", exp |-> "fresh",
         userId |-> NotAnObjectId]}

\* Authorization headers: none, another scheme, "Bearer" without a token,
\* and "Bearer <token>".
NoHeader == [t |-> "Undefined", scheme |-> "", token |-> Undefined]
Headers ==
  {NoHeader}
  \cup {[t |-> "String", scheme |-> "Basic", token |-> tok] : tok \in Tokens}
  \cup {[t |-> "String", scheme |-> "Bearer", token |-> Undefined]}
  \cup {[t |-> "String", scheme |-> "Bearer", token |-> tok] : tok \in Tokens}

\* if (authorization && authorization.startsWith('Bearer'))
\*   token = authorization.split(' ')[1]
HeaderToken(h) ==
  IF h.t # "Undefined" /\ h.scheme = "Bearer" THEN h.token ELSE Undefined

\* A verification that only decodes the payload.
JwtDecode(token) ==
  IF token.form # "jwt" THEN [throws |-> "JsonWebTokenError", userId |-> NotAnObjectId]
  ELSE [throws |-> "", userId |-> token.userId]

\* jwt.verify(token, JWT_SECRET): the payload, or the error thrown (the
\* signature is checked before the expiry).
JwtVerify(token) ==
  IF token.form # "jwt" \/ token.sig # "valid"
    THEN [throws |-> "JsonWebTokenError", userId |-> NotAnObjectId]
  ELSE IF token.exp # "fresh"
    THEN [throws |-> "TokenExpiredError", userId |-> NotAnObjectId]
  ELSE [throws |-> "", userId |-> token.userId]

\* User.findById(id): the documents found, or a CastError for a value that
\* is no ObjectId.
FindById(store, id) ==
  IF id = NotAnObjectId THEN [throws |-> "CastError", docs |-> {}]
  ELSE [throws |-> "", docs |-> {a \in store : a.id = id}]

\* authenticate: next() with req.user set, or 401.
Authenticate(h) ==
  /\ Serve
  /\ LET token == HeaderToken(h)
     IN IF token.t = "Undefined"
          THEN last' = "auth:401" /\ data' = [kind |-> "denied", message |-> "no token"]
        ELSE LET decoded == JwtVerify(token)
                 found == FindById(accounts, decoded.userId)
             IN IF decoded.throws = "TokenExpiredError"
                  THEN /\ last' = "auth:401"
                       /\ data' = [kind |-> "denied", message |-> "expired"]
                ELSE IF decoded.throws = "JsonWebTokenError"
                  THEN /\ last' = "auth:401"
                       /\ data' = [kind |-> "denied", message |-> "invalid format"]
                ELSE IF found.throws # ""
                  THEN /\ last' = "auth:401"
                       /\ data' = [kind |-> "denied", message |-> "invalid"]
                ELSE IF found.docs = {}
                  THEN /\ last' = "auth:401"
                       /\ data' = [kind |-> "denied", message |-> "no longer exists"]
                ELSE /\ last' = "auth:next"
                     /\ data' = [kind |-> "user",
                                 id |-> ObjectId((CHOOSE a \in found.docs : TRUE).id),
                                 email |-> (CHOOSE a \in found.docs : TRUE).email]
  /\ UNCHANGED <<products, cart, purchases, accounts, reqs, nextCartId, up>>

\* ----------------------------------------------------------- the accounts
NextAccounts ==
  \/ \E r \in Reqs, email \in EmailInputs : StartRegister(r, email)
  \/ \E r \in Reqs : RegisterFindOne(r) \/ RegisterSave(r)
  \/ \E h \in Headers : Authenticate(h)

SpecAccounts == Init /\ [][NextAccounts]_vars

\* ------------------------------------------------ properties of the accounts
\* The account a request may act for: its header is "Bearer <token>", the
\* token is a JWT signed by the server and not expired, and an account with
\* the token's userId is in the store.
MayPass(h) ==
  /\ h.t = "String" /\ h.scheme = "Bearer" /\ h.token.t = "String"
  /\ h.token.form = "jwt" /\ h.token.sig = "valid" /\ h.token.exp = "fresh"
  /\ \E a \in accounts : a.id = h.token.userId

\* C23: authenticate passes a request on only when its bearer token verifies
\* and names an existing account, and then req.user.id is that account's id;
\* every other request is answered 401 and not passed on.
C23_AuthenticatePassesOnlyVerified ==
  [][\A h \in Headers : Authenticate(h) =>
       IF MayPass(h)
         THEN last' = "auth:next" /\ data'.id = ObjectId(h.token.userId)
         ELSE last' = "auth:401"]_vars

\* A request passes with the token of the account a register call created.
C23_Witness ==
  /\ last = "auth:next"
  /\ data.id = ObjectId(Cardinality(Users) + 1)
  /\ \E a \in accounts : a.id = Cardinality(Users) + 1 /\ a.email.name = NewEmailName

\* C24: no two accounts have the same lower-cased email; a register call
\* that finds or meets an account with its email answers 400 and creates
\* nothing, and a register call creates at most one account, answering 201.
C24_EmailsUnique ==
  [][/\ \A a, b \in accounts' : a.id # b.id => ToLowerCase(a.email) # ToLowerCase(b.email)
     /\ \A r \in Reqs : (reqs[r].kind = "register" /\ StepOf(r)) =>
          IF \E a \in accounts : ToLowerCase(a.email) = ToLowerCase(reqs[r].email)
            THEN last' = "register:400" /\ accounts' = accounts
            ELSE \/ reqs'[r].pc = "reg_save" /\ accounts' = accounts
                 \/ /\ last' = "register:201"
                    /\ accounts \subseteq accounts'
                    /\ Cardinality(accounts') = Cardinality(accounts) + 1
                    /\ \E a \in accounts' \ accounts :
                         a.email = ToLowerCase(reqs[r].email)]_vars

\* Two register calls for the same new email ran together: the first saved
\* the account, the second met the unique index and was answered 400.
C24_Witness ==
  /\ last = "register:400"
  /\ data.logged
  /\ Cardinality(accounts) = Cardinality(InitialAccounts) + 1
  /\ \E a \in accounts : a.email.name = NewEmailName
====
